---- MODULE Spec2Model ----
(***************************************************************************)
(* The session store (src/src/automation/session-manager.ts), its idle     *)
(* reaper, and the four tool handlers of the two MCP server entry points   *)
(* (src/unnamed/part_000 and src/unnamed/part_001) that drive it.          *)
(*                                                                         *)
(* Node runs every handler on one thread: a handler runs without           *)
(* interruption up to its next `await`, so each action below is the code   *)
(* between two suspension points.  To the handlers the flow functions of   *)
(* quote-flow.ts are opaque: a running flow ends by returning or by        *)
(* throwing.                                                               *)
(*                                                                         *)
(* The flow functions themselves (waitForText, clickContinueAndWait,       *)
(* fillCarDetails, fillDriverDetails) run on one page under FlowSpec, and  *)
(* the text extraction (extractQuoteResults, extractProductsFromText) on   *)
(* one page text under ExtractSpec.                                        *)
(***************************************************************************)
EXTENDS Integers, Sequences, FiniteSets, TLC

VARIABLES
    server,        \* which entry point is running: "part_000" or "part_001"
    now,           \* Date.now(), in ms
    sessions,      \* the Map `sessions`: id -> [state, createdAt, lastActivity]
    nextId,        \* how many ids uuid() has produced, plus one
    handle,        \* per id, the browser/context the session owns
    h,             \* per handler slot: the tool invocation running in it
    reaper,        \* the setInterval callback: [pc, now, id]
    calls,         \* tool invocations made so far
    known,         \* ids a start_quote result has given to the caller
    issued,        \* history: ids createSession has registered
    destroyedDone, \* history: ids for which a destroySession call has completed
    ctxCalls,      \* history: per id, invocations of context.close()
    brCalls,       \* history: per id, invocations of browser.close()
    ev,            \* history: the store operations of the last step
    flow,          \* the quote-flow function under way on a page: its locals
    page,          \* what that page shows: landmark texts, and the address
                   \* field's value: "empty", "short" (<= 10 chars) or "long"
    trace,         \* history: what the flow function has done to the page
    text,          \* a page text handed to the extraction functions
    extracted,     \* what the extraction functions returned for it
    succeeded,     \* history: the tool steps that returned a result, with the
                   \* time of the return
    mcp,           \* the /mcp endpoint: its transports and its Map
    delay          \* a humanDelay call: its arguments and the time it sleeps

\* The session store and its handlers
storeVars == <<server, now, sessions, nextId, handle, h, reaper, calls, known,
               issued, destroyedDone, ctxCalls, brCalls, ev>>

\* The quote flow and the text extraction on one page
engineVars == <<flow, page, trace, text, extracted, succeeded, mcp, delay>>

\* The step order, the HTTP endpoint and the pacing primitive
auxVars == <<succeeded, mcp, delay>>

vars == <<server, now, sessions, nextId, handle, h, reaper, calls, known,
          issued, destroyedDone, ctxCalls, brCalls, ev,
          flow, page, trace, text, extracted, succeeded, mcp, delay>>

----------------------------------------------------------------------------
\* Bounds of the model

MaxSessions == 2
MaxCalls == 2
MaxTicks == 2
MaxTokens == 3
MaxRequests == 3
RandSteps == 4

----------------------------------------------------------------------------
\* Program constants

SESSION_TIMEOUT_MS == 10 * 60 * 1000

\* The clock advances in steps of the idle timeout, so that a session is
\* exactly SESSION_TIMEOUT_MS old after one step and older after two.
TickMs == SESSION_TIMEOUT_MS

Servers == {"part_000", "part_001"}
Procs == {"h1", "h2"}
NoId == 0
Ids == 1..MaxSessions
GetTools == {"fill_car_details", "fill_driver_details", "get_quotes"}
LookupArgs == {"rego", "manual", "none"}

IdleHandler == [pc |-> "idle", tool |-> "none", args |-> "none", sid |-> NoId, ret |-> "none"]
IdleReaper == [pc |-> "idle", now |-> 0, id |-> NoId]

\* A store operation of the last step, kept as history
Event(op, id, hit, tool, ret) ==
    [op |-> op, id |-> id, hit |-> hit, tool |-> tool, ret |-> ret]

----------------------------------------------------------------------------
\* The store's operations on the Map

Remove(store, id) == [k \in DOMAIN store \ {id} |-> store[k]]

\* A createSession that keys the entry by the Map's size instead of a uuid
RegisterSessionBySize(store, id, t) ==
    [k \in DOMAIN store \cup {Cardinality(DOMAIN store) + 1} |->
        IF k = Cardinality(DOMAIN store) + 1
        THEN [state |-> "initialized", createdAt |-> t, lastActivity |-> t]
        ELSE store[k]]

\* createSession, lines 10-19: the record registered under the new id
RegisterSession(store, id, t) ==
    [k \in DOMAIN store \cup {id} |->
        IF k = id
        THEN [state |-> "initialized", createdAt |-> t, lastActivity |-> t]
        ELSE store[k]]

\* A getSession that refreshes lastActivity without testing the lookup
getSessionTouchAll(store, id, t) ==
    [k \in DOMAIN store |-> [store[k] EXCEPT !.lastActivity = t]]

\* A getSession that registers an entry under an id it does not find
getSessionCreates(store, id, t) ==
    [k \in DOMAIN store \cup {id} |->
        IF k = id
        THEN IF id \in DOMAIN store
             THEN [store[id] EXCEPT !.lastActivity = t]
             ELSE [state |-> "initialized", createdAt |-> t, lastActivity |-> t]
        ELSE store[k]]

\* getSession, lines 24-27
getSession(store, id, t) ==
    IF id \in DOMAIN store
    THEN [store EXCEPT ![id].lastActivity = t]
    ELSE store

\* QuoteState, types.ts lines 13-19
QuoteStates == {"initialized", "car_found", "car_details_filled",
                "driver_details_filled", "quote_ready", "error"}

\* An updateSessionState that sets the entry without testing the lookup
updateSessionStateUpsert(store, id, state, t) ==
    [k \in DOMAIN store \cup {id} |->
        IF k = id
        THEN [state |-> state, createdAt |-> t, lastActivity |-> t]
        ELSE store[k]]

\* updateSessionState, lines 35-39
updateSessionState(store, id, state, t) ==
    IF id \in DOMAIN store
    THEN [store EXCEPT ![id].state = state, ![id].lastActivity = t]
    ELSE store

\* A destroySession that empties the Map
DeleteSessionClears(store, id) == <<>>

\* A destroySession that closes the browser and leaves the entry in the Map
DeleteSessionForgotten(store, id) == store

\* destroySession, line 51
DeleteSession(store, id) == Remove(store, id)

\* A reaper's test that already selects a session exactly as old as the timeout
ExpiredAtTimeout(t, s) == t - s.lastActivity >= SESSION_TIMEOUT_MS

\* A reaper's test with the operands of the subtraction exchanged
ExpiredReversed(t, s) == s.lastActivity - t > SESSION_TIMEOUT_MS

\* the reaper's test, line 63
Expired(t, s) == t - s.lastActivity > SESSION_TIMEOUT_MS

\* A count of the sessions ever created, which no destroy takes down
getActiveSessionsEverCreated(store) == Cardinality(issued)

\* getActiveSessions, lines 55-57
getActiveSessions(store) == Cardinality(DOMAIN store)

\* The status each tool puts in its result when its flow function returned:
\* part_001 lines 84, 156, 215; get_quotes returns the quotes themselves
ReportedStatus(tool) ==
    CASE tool = "start_quote" -> "car_found"
      [] tool = "fill_car_details" -> "car_details_filled"
      [] tool = "fill_driver_details" -> "driver_details_filled"
      [] OTHER -> "quote_ready"

Min(S) == CHOOSE x \in S : \A y \in S : x <= y

\* the reaper's for-of over the live Map, lines 62-63: the entries after
\* position pos in insertion order (ids are issued in increasing order) that
\* the test selects
ExpiredAfter(store, t, pos) ==
    {id \in DOMAIN store : id > pos /\ Expired(t, store[id])}

----------------------------------------------------------------------------
\* The quote flow: constants of quote-flow.ts and the page it drives

maxRetries == 3
ContinueTimeoutMs == 45000
QuoteTimeoutMs == 60000
PollDelayMinMs == 2000
PollDelayMaxMs == 2500
AddressAttempts == 2

FlowFns == {"waitForText", "clickContinueAndWait", "findCarByRego", "fillCarDetails",
            "fillDriverDetails"}

\* The landmark texts the flow looks for in document.body.innerText
AboutYou == "Already with us?"
Yearly == "/Yearly"
QuoteMarkers == {"Comprehensive", "Your quote summary"}

\* The landmarks that matter to function fn
Marks(fn) ==
    IF fn = "fillDriverDetails" THEN {Yearly} \cup QuoteMarkers ELSE {AboutYou}

\* humanDelay, browser.ts lines 46-49: floor(random * (max - min)) + min lies
\* in min .. max - 1; the two ends stand for the range
humanDelay(minMs, maxMs) == {minMs, maxMs - 1}

\* How long a page.evaluate may take to resolve: at once, or slowly
ReadMs == {0, 20000}

IdleFlow ==
    [fn |-> "none", pc |-> "idle", target |-> "none", timeoutMs |-> 0,
     elapsed |-> 0, attempt |-> 0, addressFilled |-> FALSE, result |-> "none"]

IdlePage == [text |-> {}, addr |-> "empty"]

IdleTrace ==
    [clicks |-> 0, observed |-> FALSE,
     misses |-> 0, failed |-> FALSE, bodyRead |-> FALSE, body |-> {},
     accepted |-> "none", patternFound |-> FALSE,
     submits |-> 0, attempts |-> 0, fields |-> FALSE]

----------------------------------------------------------------------------
\* The text extraction of quote-flow.ts, lines 251-321.  A page text is a
\* sequence of lines; a line is a piece of text the patterns can tell apart:
\* a product name, a price, a summary field, or filler that matches nothing.
\* len is the line's length in characters, lead its leading run of word and
\* space characters, whole whether it has no other character.

WindowChars == 500

\* "Save $" and one digit: the shortest text /Save \$([\d,]+\.?\d*)/ matches
SaveMatchMinChars == 7

ComprehensiveNames == <<"Comprehensive", "Complete Care">>
ThirdPartyNames == <<"Third Party Property Damage", "Third Party Fire & Theft">>

Line(kind, val, len, lead, whole) ==
    [kind |-> kind, val |-> val, len |-> len, lead |-> lead, whole |-> whole]

NameLine(n) ==
    CASE n = "Comprehensive" -> Line("name", n, 13, n, TRUE)
      [] n = "Complete Care" -> Line("name", n, 13, n, TRUE)
      [] n = "Third Party Property Damage" -> Line("name", n, 27, n, TRUE)
      [] OTHER -> Line("name", n, 24, "Third Party Fire ", FALSE)

YearlyLine(amt) == Line("yearly", amt, 14, "", FALSE)        \* "$120.50/Yearly"
MonthlyLine == Line("monthly", "10.50", 14, "", FALSE)       \* "$10.50/Monthly"
TotalLine == Line("total", "120.50", 24, "", FALSE)          \* "($120.50 over 12 months)"
SavingLine == Line("saving", "15.00", 11, "Save ", FALSE)    \* "Save $15.00"
CarLine == Line("car", "2020 Toyota Corolla", 19, "2020 Toyota Corolla", TRUE)
AgeLine == Line("age", 33, 7, "Age", FALSE)                  \* "Age: 33"
GenderLine == Line("gender", "Female", 14, "Gender", FALSE)  \* "Gender: Female"
DriversLine == Line("drivers", 1, 21, "Additional drivers", FALSE)
ShortFiller == Line("filler", "View details", 12, "View details", TRUE)
LongFiller == Line("filler", "(480 characters of cover terms)", 480, "", FALSE)

Lines ==
    {NameLine(ComprehensiveNames[i]) : i \in 1..2} \cup
    {NameLine(ThirdPartyNames[i]) : i \in 1..2} \cup
    {YearlyLine("120.50"), MonthlyLine, TotalLine, SavingLine,
     CarLine, AgeLine, GenderLine, DriversLine, ShortFiller, LongFiller}

\* Every text of at most n lines
TextsUpTo(n) == UNION {[1..k -> Lines] : k \in 0..n}

\* What may stand between two fields of a product's section
Gaps == {<<>>, <<ShortFiller>>, <<LongFiller>>, <<YearlyLine("99.00")>>,
         <<NameLine("Comprehensive")>>}

\* "Comprehensive ... $120.50/Yearly ... $10.50/Monthly ...
\*  ($120.50 over 12 months) ... Save $15.00", with a gap before each part
SampleText(g) ==
    g[1] \o <<NameLine("Comprehensive")>> \o g[2] \o <<YearlyLine("120.50")>>
         \o g[3] \o <<MonthlyLine>> \o g[4] \o <<TotalLine>>
         \o g[5] \o <<SavingLine>>

SampleTexts == {SampleText(g) : g \in [1..5 -> Gaps]}

\* The texts of the third-party tab
TabTexts ==
    {<<>>,
     <<NameLine(ThirdPartyNames[1]), YearlyLine("120.50")>>,
     <<NameLine(ThirdPartyNames[2]), YearlyLine("99.00"), MonthlyLine>>,
     <<YearlyLine("120.50"), NameLine(ThirdPartyNames[1])>>,
     <<NameLine(ComprehensiveNames[1]), YearlyLine("99.00"),
       NameLine(ThirdPartyNames[1]), YearlyLine("120.50")>>}

\* The character index at which line i of text t starts; lines are joined
\* by a newline
RECURSIVE Start(_, _)
Start(t, i) == IF i <= 1 THEN 0 ELSE Start(t, i - 1) + t[i - 1].len + 1

\* text.indexOf(name) taking the last occurrence instead of the first
lastIndexOf(t, name) ==
    LET S == {i \in 1..Len(t) : t[i].kind = "name" /\ t[i].val = name}
    IN IF S = {} THEN 0 ELSE CHOOSE i \in S : \A j \in S : j <= i

\* text.indexOf(name), line 299: the first line that is the name; 0 stands
\* for -1
indexOf(t, name) ==
    LET S == {i \in 1..Len(t) : t[i].kind = "name" /\ t[i].val = name}
    IN IF S = {} THEN 0 ELSE Min(S)

\* The lines j of which at least the first n characters lie in
\* text.substring(idx, idx + 500), idx being the start of line i (line 301)
InChunk(t, i, n) ==
    {j \in i..Len(t) : Start(t, j) + n <= Start(t, i) + WindowChars}

\* chunk.match of one of the patterns of lines 303-306: the first line of
\* that kind the chunk holds far enough for the pattern to match; 0 for null.
\* The patterns for the yearly and monthly price and the total end after the
\* amount, so they need the whole line; the saving pattern ends with the
\* amount and matches a line the chunk cuts short.
Match(t, i, kind) ==
    LET S == {j \in 1..Len(t) :
                /\ t[j].kind = kind
                /\ j \in InChunk(t, i, IF kind = "saving" THEN SaveMatchMinChars
                                                           ELSE t[j].len)}
    IN IF S = {} THEN 0 ELSE Min(S)

\* The amount the pattern's group captures from line j: of a saving line the
\* chunk cuts short, only the digits that are in the chunk
Group(t, i, j) ==
    IF j \in InChunk(t, i, t[j].len) THEN t[j].val ELSE "cut short"

\* A template that leaves out the "$" the group does not capture
PriceBare(amt) == <<amt>>

\* `$${m[1]}`, lines 311-314
Price(amt) == <<"$", amt>>

NA == <<"N/A">>
Undefined == <<>>

\* The object pushed for `name` found at line i with yearly match y,
\* lines 309-316
ProductQuote(t, name, i, y) ==
    LET m == Match(t, i, "monthly")
        tot == Match(t, i, "total")
        sv == Match(t, i, "saving")
    IN [name |-> name,
        yearlyPrice |-> Price(Group(t, i, y)),
        monthlyPrice |-> IF m # 0 THEN Price(Group(t, i, m)) ELSE NA,
        totalOver12Months |-> IF tot # 0 THEN Price(Group(t, i, tot)) ELSE NA,
        yearlySaving |-> IF sv # 0 THEN Price(Group(t, i, sv)) ELSE Undefined,
        features |-> <<>>]

\* extractProductsFromText, lines 295-321
RECURSIVE extractProductsFromText(_, _)
extractProductsFromText(t, productNames) ==
    IF productNames = <<>> THEN <<>>
    ELSE LET name == Head(productNames)
             rest == extractProductsFromText(t, Tail(productNames))
             idx == indexOf(t, name)
         IN IF idx = 0 THEN rest
            ELSE IF Match(t, idx, "yearly") = 0 THEN rest
            ELSE <<ProductQuote(t, name, idx, Match(t, idx, "yearly"))>> \o rest

\* The first line of a kind in the whole text; 0 for null
First(t, kind) ==
    LET S == {j \in 1..Len(t) : t[j].kind = kind}
    IN IF S = {} THEN 0 ELSE Min(S)

\* What the trailing [\w\s]* of the pattern of line 257 takes from the lines
\* after the car's: whole lines of word characters, then the leading word
\* characters of the next line
RECURSIVE Absorbed(_, _)
Absorbed(t, j) ==
    IF j > Len(t) THEN <<>>
    ELSE IF t[j].whole THEN <<t[j].lead>> \o Absorbed(t, j + 1)
    ELSE IF t[j].lead # "" THEN <<t[j].lead>>
    ELSE <<>>

\* carMatch?.[1]?.trim() || "Unknown", lines 257, 283
Description(t) ==
    LET c == First(t, "car")
    IN IF c = 0 THEN <<"Unknown">> ELSE <<t[c].val>> \o Absorbed(t, c + 1)

\* An age read with parseInt where nothing matched
DriverAgeNaN(t) ==
    LET a == First(t, "age") IN IF a = 0 THEN -1 ELSE t[a].val

\* ageMatch ? parseInt(ageMatch[1]) : 0, lines 258, 286
DriverAge(t) ==
    LET a == First(t, "age") IN IF a = 0 THEN 0 ELSE t[a].val

\* genderMatch?.[1] || "Unknown", lines 259, 287
Gender(t) ==
    LET g == First(t, "gender") IN IF g = 0 THEN "Unknown" ELSE t[g].val

\* driversMatch ? parseInt(driversMatch[1]) : 0, lines 260, 288
AdditionalDrivers(t) ==
    LET d == First(t, "drivers") IN IF d = 0 THEN 0 ELSE t[d].val

\* The QuoteResult of lines 281-292, for the page text t, the third-party
\* tab shown or not, and the text tp read after clicking it
extractQuoteResults(t, tab, tp) ==
    [car |-> [description |-> Description(t)],
     driver |-> [age |-> DriverAge(t), gender |-> Gender(t),
                 additionalDrivers |-> AdditionalDrivers(t)],
     comprehensive |-> extractProductsFromText(t, ComprehensiveNames),
     thirdParty |-> IF tab THEN extractProductsFromText(tp, ThirdPartyNames)
                           ELSE <<>>]

NoResult ==
    [car |-> [description |-> <<>>],
     driver |-> [age |-> 0, gender |-> "", additionalDrivers |-> 0],
     comprehensive |-> <<>>, thirdParty |-> <<>>]

NotExtracted ==
    [fn |-> "none", names |-> <<>>, products |-> <<>>, tab |-> FALSE,
     tp |-> <<>>, threw |-> FALSE, result |-> NoResult,
     exists |-> FALSE, visible |-> FALSE, clicks |-> 0, reads |-> 0]

----------------------------------------------------------------------------
\* The /mcp endpoint before any request, and no humanDelay call

NoRequest == [method |-> "none", hdr |-> 0, init |-> FALSE, status |-> "none", made |-> 0]

IdleMcp == [objs |-> <<>>, map |-> {}, n |-> 0, last |-> NoRequest]

IdleDelay == [pc |-> "idle", minMs |-> 0, maxMs |-> 0, ms |-> 0]

----------------------------------------------------------------------------
Init ==
    /\ flow = IdleFlow
    /\ page = IdlePage
    /\ trace = IdleTrace
    /\ text = <<>>
    /\ extracted = NotExtracted
    /\ succeeded = {}
    /\ mcp = IdleMcp
    /\ delay = IdleDelay
    /\ server \in Servers
    /\ now = 0
    /\ sessions = <<>>
    /\ nextId = 1
    /\ handle = [id \in Ids |-> "none"]
    /\ h = [p \in Procs |-> IdleHandler]
    /\ reaper = IdleReaper
    /\ calls = 0
    /\ known = {}
    /\ issued = {}
    /\ destroyedDone = {}
    /\ ctxCalls = [id \in Ids |-> 0]
    /\ brCalls = [id \in Ids |-> 0]
    /\ ev = {}

\* Time passes
Tick ==
    /\ now + TickMs <= MaxTicks * TickMs
    /\ now' = now + TickMs
    /\ ev' = {}
    /\ UNCHANGED <<engineVars, server, known, sessions, nextId, handle, h, reaper, calls,
                   issued, destroyedDone, ctxCalls, brCalls>>

----------------------------------------------------------------------------
\* The tool handlers.  A slot holds one invocation from its call to its
\* return; slot h2 is used only while h1 is busy.

\* The handler in slot p returns `out` to its caller
Return(p, out) == Event("return", h[p].sid, FALSE, h[p].tool, out)

\* destroySession(id) called by handler p on the store `store`, up to its
\* first suspension point (lines 43-46); rec is the handler's record and out
\* what it reports once the call has returned; pre are the step's earlier
\* store operations.  With no entry under id the call returns at once.
HandlerDestroy(p, rec, id, out, store, pre) ==
    LET found == id \in DOMAIN store
        call == Event("destroy", id, found, rec.tool, "none")
    IN IF found
       THEN /\ h' = [h EXCEPT ![p] = [rec EXCEPT !.pc = "d_ctx", !.ret = out]]
            /\ ctxCalls' = [ctxCalls EXCEPT ![id] = @ + 1]
            /\ ev' = pre \cup {call}
       ELSE /\ h' = [h EXCEPT ![p] = IdleHandler]
            /\ ev' = pre \cup {call, Event("return", id, FALSE, rec.tool, out)}
            /\ UNCHANGED ctxCalls

SlotFree(p) ==
    /\ h[p].pc = "idle"
    /\ p = "h2" => h["h1"].pc # "idle"

\* start_quote: the handler calls createSession, which awaits launchBrowser
StartQuoteCall(p) ==
    /\ SlotFree(p)
    /\ calls < MaxCalls
    /\ nextId + Cardinality({q \in Procs : h[q].pc = "launch"}) <= MaxSessions
    /\ \E a \in LookupArgs :
        h' = [h EXCEPT ![p] = [pc |-> "launch", tool |-> "start_quote",
                               args |-> a, sid |-> NoId, ret |-> "none"]]
    /\ calls' = calls + 1
    /\ ev' = {}
    /\ UNCHANGED <<engineVars, server, known, now, sessions, nextId, handle, reaper,
                   issued, destroyedDone, ctxCalls, brCalls>>

\* launchBrowser resolved: createSession registers the session, and the
\* handler goes on to the lookup flow, or, with neither kind of arguments,
\* to destroySession
LaunchDone(p) ==
    /\ h[p].pc = "launch"
    /\ LET id == nextId
           store == RegisterSession(sessions, id, now)
           rec == [h[p] EXCEPT !.sid = id]
       IN /\ sessions' = store
          /\ nextId' = nextId + 1
          /\ issued' = issued \cup (DOMAIN store \ DOMAIN sessions)
          /\ handle' = [handle EXCEPT ![id] = "open"]
          /\ IF h[p].args = "none"
             THEN HandlerDestroy(p, rec, id, "invalid_args", store,
                                 {Event("create", id, FALSE, "start_quote", "none")})
             ELSE /\ h' = [h EXCEPT ![p] = [rec EXCEPT !.pc = "flow"]]
                  /\ ev' = {Event("create", id, FALSE, "start_quote", "none")}
                  /\ UNCHANGED ctxCalls
    /\ UNCHANGED <<engineVars, server, known, now, reaper, calls, destroyedDone, brCalls>>

\* A createSession that registers the session before it awaits the launch,
\* so that a rejected launch leaves the entry behind
LaunchFailRegisters(p) ==
    /\ h[p].pc = "launch"
    /\ sessions' = RegisterSession(sessions, nextId, now)
    /\ nextId' = nextId + 1
    /\ issued' = issued \cup {nextId}
    /\ h' = [h EXCEPT ![p] = IdleHandler]
    /\ ev' = {Event("return", nextId, FALSE, "start_quote", "launch_error")}
    /\ UNCHANGED <<engineVars, server, known, now, handle, reaper, calls,
                   destroyedDone, ctxCalls, brCalls>>

\* launchBrowser rejected: createSession throws, the handler's catch reports
LaunchFail(p) ==
    /\ h[p].pc = "launch"
    /\ h' = [h EXCEPT ![p] = IdleHandler]
    /\ ev' = {Return(p, "launch_error")}
    /\ UNCHANGED <<engineVars, server, known, now, sessions, nextId, handle, reaper, calls,
                   issued, destroyedDone, ctxCalls, brCalls>>

\* fill_car_details, fill_driver_details, get_quotes: getSession(sessionId),
\* then "not found" or the tool's flow on the session's page.  The caller
\* passes an id a start_quote result gave it, or a string that is no id
\* (NoId): it cannot guess a uuid.
ToolCall(p) ==
    /\ SlotFree(p)
    /\ calls < MaxCalls
    /\ \E tool \in GetTools, id \in {NoId} \cup known :
        LET store == getSession(sessions, id, now)
            hit == id \in DOMAIN store
            get == Event("get", id, hit, tool, "none")
        IN /\ sessions' = store
           /\ IF hit
              THEN /\ h' = [h EXCEPT ![p] = [pc |-> "flow", tool |-> tool,
                                 args |-> "none", sid |-> id, ret |-> "none"]]
                   /\ ev' = {get}
              ELSE /\ h' = [h EXCEPT ![p] = IdleHandler]
                   /\ ev' = {get, Event("return", id, FALSE, tool, "not_found")}
    /\ calls' = calls + 1
    /\ UNCHANGED <<engineVars, server, known, now, nextId, handle, reaper,
                   issued, destroyedDone, ctxCalls, brCalls>>

\* A handler that ends the session after every tool, not only get_quotes
FlowOkEndsSession(p) ==
    /\ h[p].pc = "flow"
    /\ handle[h[p].sid] = "open"
    /\ HandlerDestroy(p, h[p], h[p].sid, "ok", sessions, {})
    /\ known' = IF h[p].tool = "start_quote" THEN known \cup {h[p].sid} ELSE known
    /\ UNCHANGED <<engineVars, server, now, sessions, nextId, handle, reaper, calls,
                   issued, destroyedDone, brCalls>>

\* The flow function returned.  get_quotes then destroys the session
\* (part_001 line 256); the other tools report their status.
FlowReturns(p) ==
    /\ h[p].pc = "flow"
    /\ handle[h[p].sid] = "open"
    /\ IF h[p].tool = "get_quotes"
       THEN HandlerDestroy(p, h[p], h[p].sid, "ok", sessions, {})
       ELSE /\ h' = [h EXCEPT ![p] = IdleHandler]
            /\ ev' = {Return(p, "ok")}
            /\ UNCHANGED ctxCalls
    /\ known' = IF h[p].tool = "start_quote" THEN known \cup {h[p].sid} ELSE known
    /\ UNCHANGED <<server, now, sessions, nextId, handle, reaper, calls,
                   issued, destroyedDone, brCalls>>

FlowOk(p) ==
    /\ FlowReturns(p)
    /\ UNCHANGED engineVars

\* What a handler's catch block does with the session before it reports
\* the error: part_001 destroys it (lines 92, 163, 222, 267), part_000 does
\* not (lines 89-99, 154-159, 212-217, 256-261).
CatchDestroys(srv) == srv = "part_001"

\* The flow function threw
FlowThrow(p) ==
    /\ h[p].pc = "flow"
    /\ IF CatchDestroys(server)
       THEN HandlerDestroy(p, h[p], h[p].sid, "flow_error", sessions, {})
       ELSE /\ h' = [h EXCEPT ![p] = IdleHandler]
            /\ ev' = {Return(p, "flow_error")}
            /\ UNCHANGED ctxCalls
    /\ UNCHANGED <<engineVars, server, known, now, sessions, nextId, handle, reaper, calls,
                   issued, destroyedDone, brCalls>>

\* The handle of a session once context.close() has resolved
ContextClosed(st) == IF st = "closed" THEN "closed" ELSE "ctx_closed"

\* A destroySession without its catch: a rejected context.close() reaches
\* the handler, and the entry stays in the Map
HCtxDoneRethrows(p) ==
    /\ h[p].pc = "d_ctx"
    /\ LET id == h[p].sid IN
       \E ok \in BOOLEAN :
         IF ok
         THEN /\ handle' = [handle EXCEPT ![id] = ContextClosed(@)]
              /\ brCalls' = [brCalls EXCEPT ![id] = @ + 1]
              /\ h' = [h EXCEPT ![p].pc = "d_br"]
              /\ ev' = {}
              /\ UNCHANGED <<sessions, destroyedDone>>
         ELSE /\ h' = [h EXCEPT ![p] = IdleHandler]
              /\ ev' = {Return(p, "destroy_error")}
              /\ UNCHANGED <<sessions, destroyedDone, handle, brCalls>>
    /\ UNCHANGED <<engineVars, server, known, now, nextId, reaper, calls, issued, ctxCalls>>

\* A handler's destroySession resumes after `await session.context.close()`:
\* resolved, it invokes browser.close() (line 47); rejected, the catch
\* swallows the error, the entry is deleted (lines 48-51) and the handler
\* returns
HCtxDone(p) ==
    /\ h[p].pc = "d_ctx"
    /\ LET id == h[p].sid IN
       \E ok \in BOOLEAN :
         IF ok
         THEN /\ handle' = [handle EXCEPT ![id] = ContextClosed(@)]
              /\ brCalls' = [brCalls EXCEPT ![id] = @ + 1]
              /\ h' = [h EXCEPT ![p].pc = "d_br"]
              /\ ev' = {}
              /\ UNCHANGED <<sessions, destroyedDone>>
         ELSE /\ sessions' = DeleteSession(sessions, id)
              /\ destroyedDone' = destroyedDone \cup {id}
              /\ h' = [h EXCEPT ![p] = IdleHandler]
              /\ ev' = {Return(p, h[p].ret)}
              /\ UNCHANGED <<handle, brCalls>>
    /\ UNCHANGED <<engineVars, server, known, now, nextId, reaper, calls, issued, ctxCalls>>

\* A handler's destroySession resumes after `await session.browser.close()`
HBrDone(p) ==
    /\ h[p].pc = "d_br"
    /\ LET id == h[p].sid IN
       /\ \E ok \in BOOLEAN :
            handle' = IF ok THEN [handle EXCEPT ![id] = "closed"] ELSE handle
       /\ sessions' = DeleteSession(sessions, id)
       /\ destroyedDone' = destroyedDone \cup {id}
       /\ h' = [h EXCEPT ![p] = IdleHandler]
       /\ ev' = {Return(p, h[p].ret)}
    /\ UNCHANGED <<engineVars, server, known, now, nextId, reaper, calls, issued, ctxCalls, brCalls>>

----------------------------------------------------------------------------
\* The idle reaper, lines 60-68

\* The loop runs on from position pos with the sweep's `now` = t over the
\* store `store`, up to the first entry the test selects: destroySession on
\* it runs to its first suspension point.  With no such entry the sweep
\* ends.  pre are the step's earlier store operations.
ReaperScan(store, t, pos, pre) ==
    LET S == ExpiredAfter(store, t, pos) IN
    IF S = {}
    THEN /\ reaper' = IdleReaper
         /\ ev' = pre
         /\ UNCHANGED ctxCalls
    ELSE LET id == Min(S) IN
         /\ reaper' = [pc |-> "d_ctx", now |-> t, id |-> id]
         /\ ctxCalls' = [ctxCalls EXCEPT ![id] = @ + 1]
         /\ ev' = pre \cup {Event("reap", id, TRUE, "reaper", "none"),
                             Event("destroy", id, TRUE, "reaper", "none")}

\* The reaper's destroySession(id) has deleted the entry and returned
Reaped(id) == Event("return", id, FALSE, "reaper", "none")

\* The interval fires: `now` is read once, line 61
ReaperSweep ==
    /\ reaper.pc = "idle"
    /\ ExpiredAfter(sessions, now, NoId) # {}
    /\ ReaperScan(sessions, now, NoId, {})
    /\ UNCHANGED <<engineVars, server, known, now, sessions, nextId, handle, h, calls,
                   issued, destroyedDone, brCalls>>

RCtxDone ==
    /\ reaper.pc = "d_ctx"
    /\ LET id == reaper.id IN
       \E ok \in BOOLEAN :
         IF ok
         THEN /\ handle' = [handle EXCEPT ![id] = ContextClosed(@)]
              /\ brCalls' = [brCalls EXCEPT ![id] = @ + 1]
              /\ reaper' = [reaper EXCEPT !.pc = "d_br"]
              /\ ev' = {}
              /\ UNCHANGED <<sessions, destroyedDone, ctxCalls>>
         ELSE /\ sessions' = DeleteSession(sessions, id)
              /\ destroyedDone' = destroyedDone \cup {id}
              /\ ReaperScan(DeleteSession(sessions, id), reaper.now, id, {Reaped(id)})
              /\ UNCHANGED <<handle, brCalls>>
    /\ UNCHANGED <<engineVars, server, known, now, nextId, h, calls, issued>>

RBrDone ==
    /\ reaper.pc = "d_br"
    /\ LET id == reaper.id IN
       /\ \E ok \in BOOLEAN :
            handle' = IF ok THEN [handle EXCEPT ![id] = "closed"] ELSE handle
       /\ sessions' = DeleteSession(sessions, id)
       /\ destroyedDone' = destroyedDone \cup {id}
       /\ ReaperScan(DeleteSession(sessions, id), reaper.now, id, {Reaped(id)})
    /\ UNCHANGED <<engineVars, server, known, now, nextId, h, calls, issued, brCalls>>

----------------------------------------------------------------------------
Next ==
    \/ Tick
    \/ \E p \in Procs : StartQuoteCall(p)
    \/ \E p \in Procs : LaunchDone(p)
    \/ \E p \in Procs : LaunchFail(p)
    \/ \E p \in Procs : ToolCall(p)
    \/ \E p \in Procs : FlowOk(p)
    \/ \E p \in Procs : FlowThrow(p)
    \/ \E p \in Procs : HCtxDone(p)
    \/ \E p \in Procs : HBrDone(p)
    \/ ReaperSweep
    \/ RCtxDone
    \/ RBrDone

Spec == Init /\ [][Next]_vars

\* Time passes only while no handler and no sweep is under way
QuietTick ==
    /\ \A p \in Procs : h[p].pc = "idle"
    /\ reaper.pc = "idle"
    /\ Tick

\* The runs in which every flow step and every close call takes a time that
\* is negligible against the idle timeout
QuietNext ==
    \/ QuietTick
    \/ \E p \in Procs : StartQuoteCall(p)
    \/ \E p \in Procs : LaunchDone(p)
    \/ \E p \in Procs : LaunchFail(p)
    \/ \E p \in Procs : ToolCall(p)
    \/ \E p \in Procs : FlowOk(p)
    \/ \E p \in Procs : FlowThrow(p)
    \/ \E p \in Procs : HCtxDone(p)
    \/ \E p \in Procs : HBrDone(p)
    \/ ReaperSweep
    \/ RCtxDone
    \/ RBrDone

QuietSpec == Init /\ [][QuietNext]_vars

\* The runs in which the caller makes one tool call at a time, against the
\* reaper and the clock
SerialNext ==
    \/ Tick
    \/ StartQuoteCall("h1")
    \/ LaunchDone("h1")
    \/ LaunchFail("h1")
    \/ ToolCall("h1")
    \/ FlowOk("h1")
    \/ FlowThrow("h1")
    \/ HCtxDone("h1")
    \/ HBrDone("h1")
    \/ ReaperSweep
    \/ RCtxDone
    \/ RBrDone

\* The interval keeps firing and every close call the reaper awaits settles
LiveSpec ==
    /\ Init
    /\ [][SerialNext]_vars
    /\ WF_vars(ReaperSweep)
    /\ WF_vars(RCtxDone)
    /\ WF_vars(RBrDone)

\* The same fairness with both handler slots in use
ConcurrentLiveSpec ==
    /\ Spec
    /\ WF_vars(ReaperSweep)
    /\ WF_vars(RCtxDone)
    /\ WF_vars(RBrDone)

----------------------------------------------------------------------------
\* The test client of the deployed server (src/test-mcp-client.ts, lines
\* 93-174): one caller makes the four tool calls in order, each after the
\* result of the one before, with the sessionId that start_quote returned.

ScriptSteps == 4

ScriptTool(n) ==
    CASE n = 1 -> "fill_car_details"
      [] n = 2 -> "fill_driver_details"
      [] OTHER -> "get_quotes"

\* The client's next call; `calls` counts the calls it has made
ScriptCall ==
    /\ h["h1"].pc = "idle"
    /\ calls < ScriptSteps
    /\ IF calls = 0
       THEN /\ \E a \in {"rego", "manual"} :
                 h' = [h EXCEPT !["h1"] = [pc |-> "launch", tool |-> "start_quote",
                                          args |-> a, sid |-> NoId, ret |-> "none"]]
            /\ ev' = {}
            /\ UNCHANGED sessions
       ELSE \E id \in known :
              LET tool == ScriptTool(calls)
                  store == getSession(sessions, id, now)
                  hit == id \in DOMAIN store
                  get == Event("get", id, hit, tool, "none")
              IN /\ sessions' = store
                 /\ IF hit
                    THEN /\ h' = [h EXCEPT !["h1"] = [pc |-> "flow", tool |-> tool,
                                          args |-> "none", sid |-> id, ret |-> "none"]]
                         /\ ev' = {get}
                    ELSE /\ h' = [h EXCEPT !["h1"] = IdleHandler]
                         /\ ev' = {get, Event("return", id, FALSE, tool, "not_found")}
    /\ calls' = calls + 1
    /\ UNCHANGED <<engineVars, server, known, now, nextId, handle, reaper,
                   issued, destroyedDone, ctxCalls, brCalls>>

\* Time passes, but no call starts later than the idle timeout after the
\* start of the call before it (the session's lastActivity)
ScriptTick ==
    /\ \A id \in DOMAIN sessions :
           (now + TickMs) - sessions[id].lastActivity <= SESSION_TIMEOUT_MS
    /\ Tick

\* The runs of the client in which every landmark appears: the launch
\* resolves and no flow function throws.  A close call may still reject.
ScriptNext ==
    \/ ScriptTick
    \/ ScriptCall
    \/ LaunchDone("h1")
    \/ FlowOk("h1")
    \/ HCtxDone("h1")
    \/ HBrDone("h1")

ScriptSpec == Init /\ [][ScriptNext]_vars

----------------------------------------------------------------------------
\* The session manager by itself: a module that imports it calls its
\* exported functions, with an id a createSession gave it or a string that
\* is no id, while the reaper runs.  `calls` counts the calls.

\* createSession: launchBrowser has resolved and the session is registered
\* (lines 10-19); the await before that touches nothing in the store
ApiCreate ==
    /\ calls < MaxCalls
    /\ nextId <= MaxSessions
    /\ sessions' = RegisterSession(sessions, nextId, now)
    /\ nextId' = nextId + 1
    /\ issued' = issued \cup {nextId}
    /\ handle' = [handle EXCEPT ![nextId] = "open"]
    /\ ev' = {Event("create", nextId, FALSE, "api", "none")}
    /\ calls' = calls + 1
    /\ UNCHANGED <<engineVars, server, known, now, h, reaper, destroyedDone, ctxCalls, brCalls>>

ApiGet ==
    /\ calls < MaxCalls
    /\ \E id \in {NoId} \cup issued :
        /\ sessions' = getSession(sessions, id, now)
        /\ ev' = {Event("get", id, id \in DOMAIN sessions, "api", "none")}
    /\ calls' = calls + 1
    /\ UNCHANGED <<engineVars, server, known, now, nextId, handle, h, reaper,
                   issued, destroyedDone, ctxCalls, brCalls>>

ApiUpdate ==
    /\ calls < MaxCalls
    /\ \E id \in {NoId} \cup issued, st \in QuoteStates :
        /\ sessions' = updateSessionState(sessions, id, st, now)
        /\ ev' = {Event("update", id, id \in DOMAIN sessions, "api", st)}
    /\ calls' = calls + 1
    /\ UNCHANGED <<engineVars, server, known, now, nextId, handle, h, reaper,
                   issued, destroyedDone, ctxCalls, brCalls>>

\* destroySession up to its first suspension point; HCtxDone and HBrDone
\* resume it
ApiDestroy ==
    /\ calls < MaxCalls
    /\ h["h1"].pc = "idle"
    /\ \E id \in {NoId} \cup issued :
        HandlerDestroy("h1", [IdleHandler EXCEPT !.tool = "api", !.sid = id],
                       id, "none", sessions, {})
    /\ calls' = calls + 1
    /\ UNCHANGED <<engineVars, server, known, now, sessions, nextId, handle, reaper,
                   issued, destroyedDone, brCalls>>

StoreNext ==
    \/ Tick
    \/ ApiCreate
    \/ ApiGet
    \/ ApiUpdate
    \/ ApiDestroy
    \/ HCtxDone("h1")
    \/ HBrDone("h1")
    \/ ReaperSweep
    \/ RCtxDone
    \/ RBrDone

StoreSpec == Init /\ [][StoreNext]_vars

----------------------------------------------------------------------------
\* One caller at a time, calling the tools in any order, with a record of
\* the steps that succeeded on each session and of the time at which each
\* returned.  Time passes in steps of StepMs, also while a flow function
\* runs.

\* A time a tool call can take: the three Continue waits of
\* clickContinueAndWait and as much again for the rest of the form
StepMs == (maxRetries + 1) * ContinueTimeoutMs

StepDone(id, tool, at) == [id |-> id, tool |-> tool, at |-> at]

\* Time passes; a flow function lasts no longer than StepMs
OrderTick ==
    /\ now + StepMs <= MaxTicks * TickMs
    /\ \A p \in Procs :
         (h[p].pc = "flow" /\ h[p].sid \in DOMAIN sessions) =>
             (now + StepMs) - sessions[h[p].sid].lastActivity <= StepMs
    /\ now' = now + StepMs
    /\ ev' = {}
    /\ UNCHANGED <<engineVars, server, known, sessions, nextId, handle, h, reaper, calls,
                   issued, destroyedDone, ctxCalls, brCalls>>

\* The flow function returned and the handler builds its result
OrderFlowOk ==
    /\ FlowReturns("h1")
    /\ succeeded' = succeeded \cup {StepDone(h["h1"].sid, h["h1"].tool, now)}
    /\ UNCHANGED <<flow, page, trace, text, extracted, mcp, delay>>

OrderNext ==
    \/ OrderTick
    \/ StartQuoteCall("h1")
    \/ LaunchDone("h1")
    \/ LaunchFail("h1")
    \/ ToolCall("h1")
    \/ OrderFlowOk
    \/ FlowThrow("h1")
    \/ HCtxDone("h1")
    \/ HBrDone("h1")
    \/ ReaperSweep
    \/ RCtxDone
    \/ RBrDone

OrderSpec == Init /\ [][OrderNext]_vars

----------------------------------------------------------------------------
\* The /mcp endpoint (part_001 lines 290-365, part_000 lines 279-354).  A
\* transport is numbered by the order of its creation, and the session id it
\* generates is that number (a randomUUID of its own); header 0 stands for a
\* request without the mcp-session-id header.  The transport calls
\* onsessioninitialized while it handles its initialize request, and onclose
\* when it is closed.

Methods == {"GET", "POST", "DELETE", "PUT"}

\* `sessionId && transports.has(sessionId)`, lines 305, 316, 328
Registered(m, hdr) == hdr # 0 /\ hdr \in m.map

\* A test for a new session that does not look at the request body
NewSessionAnyBody(hdr, init) == hdr = 0

\* `!sessionId && isInitializeRequest(req.body)`, line 332
NewSession(hdr, init) == hdr = 0 /\ init

\* The handler's answer to one request: the transport's own answer when the
\* request is handed to a transport, or the status the handler sets
Respond(m, method, hdr, init) ==
    LET req == [method |-> method, hdr |-> hdr, init |-> init,
                status |-> "none", made |-> 0]
        answered(st) == [m EXCEPT !.n = @ + 1, !.last = [req EXCEPT !.status = st]]
    IN CASE method \in {"GET", "DELETE"} ->
              IF Registered(m, hdr) THEN answered("transport") ELSE answered("400")
         [] method = "POST" ->
              IF Registered(m, hdr) THEN answered("transport")
              ELSE IF NewSession(hdr, init)
                   THEN [m EXCEPT !.n = @ + 1,
                                  !.objs = Append(@, [sid |-> 0, open |-> TRUE]),
                                  !.last = [req EXCEPT !.status = "transport",
                                                       !.made = Len(m.objs) + 1]]
                   ELSE answered("400")
         [] OTHER -> answered("405")

McpRequest ==
    /\ mcp.n < MaxRequests
    /\ \E method \in Methods, hdr \in 0..MaxRequests, init \in BOOLEAN :
         mcp' = Respond(mcp, method, hdr, init)
    /\ UNCHANGED <<storeVars, flow, page, trace, text, extracted, succeeded, delay>>

\* onsessioninitialized(sid), lines 338-341
McpSessionInitialized ==
    /\ \E k \in 1..Len(mcp.objs) :
         /\ mcp.objs[k].open
         /\ mcp.objs[k].sid = 0
         /\ mcp' = [mcp EXCEPT !.objs[k].sid = k, !.map = @ \cup {k}]
    /\ UNCHANGED <<storeVars, flow, page, trace, text, extracted, succeeded, delay>>

\* transport.onclose, lines 344-350
McpClosed ==
    /\ \E k \in 1..Len(mcp.objs) :
         /\ mcp.objs[k].open
         /\ mcp' = [mcp EXCEPT !.objs[k].open = FALSE,
                               !.map = IF mcp.objs[k].sid # 0
                                       THEN @ \ {mcp.objs[k].sid} ELSE @]
    /\ UNCHANGED <<storeVars, flow, page, trace, text, extracted, succeeded, delay>>

McpNext ==
    \/ McpRequest
    \/ McpSessionInitialized
    \/ McpClosed

McpSpec == Init /\ [][McpNext]_vars

----------------------------------------------------------------------------
\* humanDelay (browser.ts lines 46-49).  Math.random() yields a value in
\* [0, 1): the values k / RandSteps, k < RandSteps, stand for it.

\* The arguments of the calls in quote-flow.ts and the defaults, with ranges
\* narrow enough for every value of the range to come up
DelayArgs ==
    {<<200, 800>>, <<200, 400>>, <<300, 500>>, <<500, 800>>, <<800, 1200>>,
     <<1000, 1500>>, <<1000, 2000>>, <<1500, 2000>>, <<2000, 3000>>,
     <<4000, 6000>>, <<PollDelayMinMs, PollDelayMaxMs>>} \cup
    {<<m, m + w>> : m \in {0 - 2, 0, PollDelayMinMs}, w \in 1..RandSteps}

\* A delay computed with Math.round in place of Math.floor
humanDelayMsRounded(minMs, maxMs, k) ==
    ((2 * k * (maxMs - minMs) + RandSteps) \div (2 * RandSteps)) + minMs

\* line 47: Math.floor(Math.random() * (maxMs - minMs)) + minMs
humanDelayMs(minMs, maxMs, k) ==
    ((k * (maxMs - minMs)) \div RandSteps) + minMs

\* humanDelay(minMs, maxMs) is called: the delay is computed and the timer set
DelayCall ==
    /\ delay.pc = "idle"
    /\ \E a \in DelayArgs, k \in 0..(RandSteps - 1) :
         delay' = [pc |-> "sleeping", minMs |-> a[1], maxMs |-> a[2],
                   ms |-> humanDelayMs(a[1], a[2], k)]
    /\ UNCHANGED <<storeVars, flow, page, trace, text, extracted, succeeded, mcp>>

\* The timer fires and the promise resolves, line 48
DelayWake ==
    /\ delay.pc = "sleeping"
    /\ delay' = [delay EXCEPT !.pc = "resolved"]
    /\ UNCHANGED <<storeVars, flow, page, trace, text, extracted, succeeded, mcp>>

DelayNext ==
    \/ DelayCall
    \/ DelayWake

DelaySpec == Init /\ [][DelayNext]_vars

----------------------------------------------------------------------------
\* The quote flow on one page (quote-flow.ts).  The position of a function is
\* the `await` it is suspended at; an action is the code from that await to
\* the next one.

\* A function is called on a page in any state
FlowInit ==
    /\ server = "part_001"
    /\ now = 0
    /\ sessions = <<>>
    /\ nextId = 1
    /\ handle = [id \in Ids |-> "none"]
    /\ h = [p \in Procs |-> IdleHandler]
    /\ reaper = IdleReaper
    /\ calls = 0
    /\ known = {}
    /\ issued = {}
    /\ destroyedDone = {}
    /\ ctxCalls = [id \in Ids |-> 0]
    /\ brCalls = [id \in Ids |-> 0]
    /\ ev = {}
    /\ text = <<>>
    /\ extracted = NotExtracted
    /\ succeeded = {}
    /\ mcp = IdleMcp
    /\ delay = IdleDelay
    /\ trace = IdleTrace
    /\ \E fn \in FlowFns :
         /\ page \in [text : SUBSET Marks(fn), addr : {"empty"}]
         /\ \/ /\ fn = "waitForText"
               /\ \E ms \in {ContinueTimeoutMs, QuoteTimeoutMs} :
                    flow = [IdleFlow EXCEPT !.fn = fn, !.pc = "w_read",
                                            !.target = AboutYou, !.timeoutMs = ms]
            \/ /\ fn = "clickContinueAndWait"
               /\ flow = [IdleFlow EXCEPT !.fn = fn, !.pc = "c_click",
                                          !.target = AboutYou, !.attempt = 1]
            \/ /\ fn = "findCarByRego"
               /\ flow = [IdleFlow EXCEPT !.fn = fn, !.pc = "l_open"]
            \/ /\ fn = "fillCarDetails"
               /\ flow = [IdleFlow EXCEPT !.fn = fn, !.pc = "a_attempt",
                                          !.target = AboutYou, !.attempt = 1]
            \/ /\ fn = "fillDriverDetails"
               /\ flow = [IdleFlow EXCEPT !.fn = fn, !.pc = "d_form",
                                          !.target = Yearly]

Running == flow.pc \notin {"idle", "done"}

\* The function returns or throws
Finish(f, res) == [f EXCEPT !.pc = "done", !.result = res]

\* A loop test with the comparison the wrong way round
WithinDeadlineReversed(elapsed, timeoutMs) == elapsed > timeoutMs

\* waitForText line 25: the loop goes on while the deadline has not passed
WithinDeadline(elapsed, timeoutMs) == elapsed < timeoutMs

\* waitForText line 27
Includes(body, target) == target \in body

\* clickContinueAndWait line 34 with one attempt too many
ContinueAgainOnceMore(attempt) == attempt <= maxRetries

\* clickContinueAndWait line 34: attempt++ and the loop test
ContinueAgain(attempt) == attempt + 1 <= maxRetries

\* fillDriverDetails line 243 asking for both markers
QuotePageMissingEither(body) == ~(QuoteMarkers \subseteq body)

\* fillDriverDetails line 243: neither quote-page marker is in the text
QuotePageMissing(body) == \A m \in QuoteMarkers : ~Includes(body, m)

\* waitForText is entered (lines 24-26): start = Date.now(), the loop test
\* passes for a positive timeout, and the first page read is awaited
WaitStart(f, timeoutMs) ==
    [f EXCEPT !.pc = "w_read", !.timeoutMs = timeoutMs, !.elapsed = 0]

\* A fillDriverDetails that clicks Continue again when the wait has missed
WaitReturnClicksAgain(f, found, tr) ==
    CASE f.fn = "waitForText" ->
           /\ flow' = Finish(f, IF found THEN "true" ELSE "false")
           /\ trace' = tr
      [] f.fn = "fillDriverDetails" ->
           /\ flow' = IF found THEN Finish(f, "returned")
                               ELSE [f EXCEPT !.pc = "d_click"]
           /\ trace' = [tr EXCEPT !.misses = IF found THEN @ ELSE @ + 1]
      [] OTHER ->
           /\ flow' = IF found THEN Finish(f, "returned")
                      ELSE IF ContinueAgain(f.attempt)
                           THEN [f EXCEPT !.pc = "c_click", !.attempt = @ + 1]
                           ELSE Finish(f, "threw")
           /\ trace' = [tr EXCEPT !.misses = IF found THEN @ ELSE @ + 1]

\* waitForText returns `found` to the code that awaited it; f is the
\* function's state and tr the history up to the return
WaitReturn(f, found, tr) ==
    CASE f.fn = "waitForText" ->
           /\ flow' = Finish(f, IF found THEN "true" ELSE "false")
           /\ trace' = tr
      [] f.fn = "fillDriverDetails" ->
           /\ flow' = IF found THEN Finish(f, "returned")
                               ELSE [f EXCEPT !.pc = "d_body"]
           /\ trace' = [tr EXCEPT !.misses = IF found THEN @ ELSE @ + 1]
      [] OTHER ->
           /\ flow' = IF found THEN Finish(f, "returned")
                      ELSE IF ContinueAgain(f.attempt)
                           THEN [f EXCEPT !.pc = "c_click", !.attempt = @ + 1]
                           ELSE Finish(f, "threw")
           /\ trace' = [tr EXCEPT !.misses = IF found THEN @ ELSE @ + 1]

\* The site changes what the page shows while the function is suspended
PageChange ==
    /\ Running
    /\ \E t \in SUBSET Marks(flow.fn) :
         /\ t # page.text
         /\ page' = [page EXCEPT !.text = t]
    /\ UNCHANGED <<storeVars, auxVars, flow, trace, text, extracted>>

\* An awaited page call (a click, a fill, a page read) rejects: none of the
\* flow functions catches, so the function throws
PageCallRejects ==
    /\ Running
    /\ flow.pc # "w_delay"
    /\ flow' = Finish(flow, "threw")
    /\ trace' = [trace EXCEPT !.failed = TRUE]
    /\ UNCHANGED <<storeVars, auxVars, page, text, extracted>>

\* findCarByRego up to the click on "Find Your car", lines 50-58: the page
\* is opened, the registration filled in and the lookup submitted
LookupSubmit ==
    /\ flow.pc = "l_open"
    /\ flow' = [flow EXCEPT !.pc = "l_wait"]
    /\ trace' = [trace EXCEPT !.submits = @ + 1]
    /\ UNCHANGED <<storeVars, auxVars, page, text, extracted>>

\* The address field has appeared and the description is read, lines 61-70
LookupFound ==
    /\ flow.pc = "l_wait"
    /\ flow' = Finish(flow, "returned")
    /\ UNCHANGED <<storeVars, auxVars, page, trace, text, extracted>>

\* A fillCarDetails that goes on without an address, as the E2E script does
\* (part_003 lines 80-82)
AddressMissingIgnored(filled) == FALSE

\* fillCarDetails line 156: no pass of the loop accepted an address
AddressMissing(filled) == ~filled

\* One pass of fillCarDetails' address loop, lines 124-154, and the test
\* after the loop, lines 156-158.  sugg: an address-shaped suggestion is
\* listed; v1: the field's value after clicking it; street: a suggestion
\* with a street keyword is listed; v2: the field's value after clicking that.
AddressAttempt ==
    /\ flow.pc = "a_attempt"
    /\ \E sugg \in BOOLEAN, street \in BOOLEAN, v1 \in {"short", "long"},
          v2 \in {"short", "long"} :
         LET byPattern == sugg /\ v1 = "long"
             byFallback == ~byPattern /\ street
             filled == byPattern \/ byFallback
             addr == IF byPattern THEN v1
                     ELSE IF byFallback THEN v2
                     ELSE "empty"
         IN /\ page' = [page EXCEPT !.addr = addr]
            /\ trace' = [trace EXCEPT
                           !.accepted = IF byPattern THEN "pattern"
                                        ELSE IF byFallback THEN "fallback"
                                        ELSE "none",
                           !.patternFound = sugg,
                           !.attempts = @ + 1]
            /\ flow' = IF ~filled /\ flow.attempt + 1 <= AddressAttempts
                       THEN [flow EXCEPT !.attempt = @ + 1]
                       ELSE IF AddressMissing(filled)
                            THEN Finish(flow, "threw")
                            ELSE [flow EXCEPT !.pc = "f_form", !.addressFilled = filled]
    /\ UNCHANGED <<storeVars, auxVars, text, extracted>>

\* The remaining fields of the form are filled: fillCarDetails lines
\* 160-195, fillDriverDetails lines 207-236; the Continue click is next
FormDone ==
    /\ flow.pc \in {"f_form", "d_form"}
    /\ flow' = IF flow.pc = "f_form"
               THEN [flow EXCEPT !.pc = "c_click", !.attempt = 1]
               ELSE [flow EXCEPT !.pc = "d_click"]
    /\ trace' = [trace EXCEPT !.fields = TRUE]
    /\ UNCHANGED <<storeVars, auxVars, page, text, extracted>>

\* The Continue click resolved (lines 35, 239) and waitForText is called.
\* The page advances or stays as it is.
ClickDone ==
    /\ flow.pc \in {"c_click", "d_click"}
    /\ flow' = WaitStart(flow, IF flow.pc = "c_click" THEN ContinueTimeoutMs
                                                      ELSE QuoteTimeoutMs)
    /\ trace' = [trace EXCEPT !.clicks = @ + 1, !.observed = FALSE]
    /\ UNCHANGED <<storeVars, auxVars, page, text, extracted>>

\* waitForText's page read resolved, lines 26-28
PollDone ==
    /\ flow.pc = "w_read"
    /\ \E d \in ReadMs :
         LET tr == [trace EXCEPT !.observed = @ \/ flow.target \in page.text] IN
         IF Includes(page.text, flow.target)
         THEN /\ WaitReturn([flow EXCEPT !.elapsed = @ + d], TRUE, tr)
         ELSE /\ flow' = [flow EXCEPT !.pc = "w_delay", !.elapsed = @ + d]
              /\ trace' = tr
    /\ UNCHANGED <<storeVars, auxVars, page, text, extracted>>

\* waitForText's humanDelay(2000, 2500) resolved, and the loop test, line 25
DelayDone ==
    /\ flow.pc = "w_delay"
    /\ \E d \in humanDelay(PollDelayMinMs, PollDelayMaxMs) :
         LET e == flow.elapsed + d IN
         IF WithinDeadline(e, flow.timeoutMs)
         THEN /\ flow' = [flow EXCEPT !.pc = "w_read", !.elapsed = e]
              /\ trace' = trace
         ELSE /\ WaitReturn([flow EXCEPT !.elapsed = e], FALSE, trace)
    /\ UNCHANGED <<storeVars, auxVars, page, text, extracted>>

\* fillDriverDetails' second page read resolved, lines 242-245
BodyDone ==
    /\ flow.pc = "d_body"
    /\ flow' = Finish(flow, IF QuotePageMissing(page.text) THEN "threw" ELSE "returned")
    /\ trace' = [trace EXCEPT !.bodyRead = TRUE, !.body = page.text]
    /\ UNCHANGED <<storeVars, auxVars, page, text, extracted>>

FlowNext ==
    \/ PageChange
    \/ PageCallRejects
    \/ LookupSubmit
    \/ LookupFound
    \/ AddressAttempt
    \/ FormDone
    \/ ClickDone
    \/ PollDone
    \/ DelayDone
    \/ BodyDone

FlowSpec == FlowInit /\ [][FlowNext]_vars

\* Every page call the function awaits settles, and so does every delay
FlowLiveSpec ==
    /\ FlowSpec
    /\ WF_vars(PollDone \/ PageCallRejects)
    /\ WF_vars(DelayDone)

----------------------------------------------------------------------------
\* The extraction functions applied to a page text

ExtractInit ==
    /\ server = "part_001"
    /\ now = 0
    /\ sessions = <<>>
    /\ nextId = 1
    /\ handle = [id \in Ids |-> "none"]
    /\ h = [p \in Procs |-> IdleHandler]
    /\ reaper = IdleReaper
    /\ calls = 0
    /\ known = {}
    /\ issued = {}
    /\ destroyedDone = {}
    /\ ctxCalls = [id \in Ids |-> 0]
    /\ brCalls = [id \in Ids |-> 0]
    /\ ev = {}
    /\ flow = IdleFlow
    /\ page = IdlePage
    /\ trace = IdleTrace
    /\ text \in TextsUpTo(MaxTokens) \cup SampleTexts
    /\ extracted = NotExtracted
    /\ succeeded = {}
    /\ mcp = IdleMcp
    /\ delay = IdleDelay

\* extractProductsFromText(text, productNames) is called and returns
ExtractProducts ==
    /\ extracted.fn = "none"
    /\ \E names \in {ComprehensiveNames, ThirdPartyNames} :
         extracted' = [NotExtracted EXCEPT
                         !.fn = "extractProductsFromText",
                         !.names = names,
                         !.products = extractProductsFromText(text, names)]
    /\ UNCHANGED <<storeVars, auxVars, flow, page, trace, text>>

\* A tab test that asks only whether the tab exists
TabShownIgnoringVisibility(exists, visible) == exists

\* extractQuoteResults line 271: the tab is clicked when the locator counts
\* an element and the element is visible
TabShown(exists, visible) == exists /\ visible

\* extractQuoteResults(page) runs on a page showing `text`: the page calls
\* resolve and it returns its result, or one of them rejects and it throws.
\* exists, visible: what the third-party tab's locator answers; tp: the text
\* the page shows once the tab has been clicked.
ExtractQuoteResults ==
    /\ extracted.fn = "none"
    /\ \/ \E exists \in BOOLEAN :
          \E visible \in (IF exists THEN BOOLEAN ELSE {FALSE}) :
            LET seen == [NotExtracted EXCEPT !.fn = "extractQuoteResults",
                                             !.exists = exists, !.visible = visible]
            IN IF TabShown(exists, visible)
               THEN \E tp \in TabTexts :
                      extracted' = [seen EXCEPT
                                      !.tab = TRUE, !.tp = tp, !.clicks = 1, !.reads = 2,
                                      !.result = extractQuoteResults(text, TRUE, tp)]
               ELSE extracted' = [seen EXCEPT
                                    !.reads = 1,
                                    !.result = extractQuoteResults(text, FALSE, <<>>)]
       \/ extracted' = [NotExtracted EXCEPT
                          !.fn = "extractQuoteResults", !.threw = TRUE]
    /\ UNCHANGED <<storeVars, auxVars, flow, page, trace, text>>

ExtractNext ==
    \/ ExtractProducts
    \/ ExtractQuoteResults

ExtractSpec == ExtractInit /\ [][ExtractNext]_vars

----------------------------------------------------------------------------
\* Properties

TypeOK ==
    /\ server \in Servers
    /\ now \in 0..(MaxTicks * TickMs)
    /\ DOMAIN sessions \subseteq Ids
    /\ \A id \in DOMAIN sessions :
         /\ sessions[id].state = "initialized"
         /\ sessions[id].createdAt <= sessions[id].lastActivity
         /\ sessions[id].lastActivity <= now
    /\ nextId \in 1..(MaxSessions + 1)
    /\ \A p \in Procs : h[p].pc \in {"idle", "launch", "flow", "d_ctx", "d_br"}
    /\ reaper.pc \in {"idle", "d_ctx", "d_br"}
    /\ calls \in 0..MaxCalls
    /\ known \subseteq issued

\* The age of the session stored under id, at the current time
Age(id) == now - sessions[id].lastActivity

\* C1: once a destroySession(id) call has completed, id is absent from the
\* store (getSession(id) returns absent), and a further destroySession(id)
\* call finds no entry, returns to its caller in the same step without
\* throwing, invokes no close and leaves the store as it was.
C1_DestroyIdempotent ==
    [][ /\ \A id \in destroyedDone' : id \notin DOMAIN sessions'
        /\ \A e \in ev' :
             (e.op = "destroy" /\ e.id \in destroyedDone) =>
                /\ ~e.hit
                /\ \E r \in ev' : r.op = "return" /\ r.id = e.id
                /\ sessions' = sessions
                /\ ctxCalls' = ctxCalls
                /\ brCalls' = brCalls
                /\ handle' = handle ]_vars

\* A destroySession call on an id whose destroy had already completed
C1_Witness ==
    \E e \in ev : e.op = "destroy" /\ ~e.hit /\ e.id \in destroyedDone

\* C2: for every session, context.close and browser.close are each invoked
\* at most once, and exactly once when its browser has been closed, whatever
\* the interleaving of the destroySession calls and the reaper sweep.
C2_ReleasedExactlyOnce ==
    \A id \in Ids :
        /\ ctxCalls[id] <= 1
        /\ brCalls[id] <= 1
        /\ handle[id] = "closed" => (ctxCalls[id] = 1 /\ brCalls[id] = 1)

\* C3: every session in the store (every session getSession can return) has
\* a browser that is neither closed nor being closed: no close has been
\* invoked on it.
C3_StoredSessionHasLiveBrowser ==
    \A id \in DOMAIN sessions : handle[id] = "open" /\ ctxCalls[id] = 0

\* C4: the reaper is never destroying a session on which a handler's flow
\* step is running.
C4_ReaperNeverRacesFlow ==
    \A p \in Procs :
        ~ ( /\ h[p].pc = "flow"
            /\ reaper.pc \in {"d_ctx", "d_br"}
            /\ reaper.id = h[p].sid )

\* C5: a getSession hit sets the session's lastActivity to the current time,
\* and the reaper starts destroying a session only when, at that moment, its
\* lastActivity is more than SESSION_TIMEOUT_MS old.
C5_RefreshAndIdleWindow ==
    [][ \A e \in ev' :
          /\ (e.op = "get" /\ e.hit) =>
                (e.id \in DOMAIN sessions' /\ sessions'[e.id].lastActivity = now)
          /\ e.op = "reap" =>
                (e.id \in DOMAIN sessions /\ now - sessions[e.id].lastActivity > SESSION_TIMEOUT_MS) ]_vars

\* The reaper starts on one session while another, exactly as old as the
\* timeout, stays
C5_Witness ==
    \E e \in ev :
        /\ e.op = "reap"
        /\ \E id \in DOMAIN sessions : id # e.id /\ Age(id) = SESSION_TIMEOUT_MS

\* C6: a session whose lastActivity is more than SESSION_TIMEOUT_MS old is
\* eventually removed from the store, unless a getSession refreshes it first.
C6_IdleSessionEventuallyReaped ==
    \A id \in Ids :
        (id \in DOMAIN sessions /\ now - sessions[id].lastActivity > SESSION_TIMEOUT_MS)
          ~> (id \notin DOMAIN sessions
              \/ now - sessions[id].lastActivity <= SESSION_TIMEOUT_MS)

\* The reaper's destroySession has removed a session
C6_Witness ==
    \E e \in ev : e.op = "return" /\ e.tool = "reaper" /\ e.id \notin DOMAIN sessions

\* C7: when a handler returns the error of a flow function that threw, the
\* session it ran on is no longer in the store.
C7_FlowFailureDestroysSession ==
    \A e \in ev :
        (e.op = "return" /\ e.ret = "flow_error") => e.id \notin DOMAIN sessions

\* C8: a start_quote call with neither kind of lookup arguments never has a
\* session (and so a browser) of its own.
C8_InvalidLookupLaunchesNothing ==
    /\ \A p \in Procs :
         (h[p].tool = "start_quote" /\ h[p].args = "none") => h[p].sid = NoId
    /\ \A e \in ev : (e.op = "return" /\ e.ret = "invalid_args") => e.id = NoId

\* C9: getSession on an id createSession never returned misses, the handler
\* reports "not found", and the store is left as it was.
C9_UnknownIdAbsent ==
    [][ \A e \in ev' :
          (e.op = "get" /\ e.id \notin issued) =>
             /\ ~e.hit
             /\ \E r \in ev' : r.op = "return" /\ r.id = e.id /\ r.ret = "not_found"
             /\ sessions' = sessions ]_vars

\* A lookup of a never-issued id while a session is in the store
C9_Witness ==
    /\ \E e \in ev : e.op = "get" /\ ~e.hit /\ e.id \notin issued
    /\ sessions # <<>>

\* C10: a step that adds to the store adds exactly one entry, in state
\* "initialized", under an id never issued before, and changes and removes
\* no other entry.
C10_CreateRegistersFreshId ==
    [][ LET new == DOMAIN sessions' \ DOMAIN sessions IN
        new # {} =>
          /\ Cardinality(new) = 1
          /\ \A id \in new :
               /\ id \notin issued
               /\ sessions'[id].state = "initialized"
               /\ sessions'[id].createdAt = now
               /\ sessions'[id].lastActivity = now
          /\ issued' = issued \cup new
          /\ \A k \in DOMAIN sessions :
               k \in DOMAIN sessions' /\ sessions'[k] = sessions[k] ]_vars

\* A session is created after an earlier one was destroyed
C10_Witness ==
    \E e \in ev :
        /\ e.op = "create"
        /\ e.id \in DOMAIN sessions
        /\ \E d \in destroyedDone : d # e.id

\* C11: when launchBrowser rejects inside createSession, start_quote reports
\* the error with no session id, and the store, getActiveSessions, the set of
\* issued ids, the ids known to the caller and every browser are as before.
C11_LaunchFailureRegistersNothing ==
    [][ \A e \in ev' :
          (e.op = "return" /\ e.ret = "launch_error") =>
             /\ e.id = NoId
             /\ sessions' = sessions
             /\ getActiveSessions(sessions') = getActiveSessions(sessions)
             /\ issued' = issued
             /\ known' = known
             /\ handle' = handle ]_vars

\* A launch fails while an earlier session is in the store
C11_Witness ==
    /\ \E e \in ev : e.op = "return" /\ e.ret = "launch_error"
    /\ getActiveSessions(sessions) = 1

\* C12: when start_quote, fill_car_details or fill_driver_details reports
\* success, the session's stored state is the status reported to the caller:
\* "car_found", "car_details_filled", "driver_details_filled".
C12_StoredStateFollowsFlow ==
    \A e \in ev :
        (e.op = "return" /\ e.ret = "ok" /\ e.id \in DOMAIN sessions) =>
            sessions[e.id].state = ReportedStatus(e.tool)

\* The function under way is fn and it has returned or thrown
Done(fn) == flow.fn = fn /\ flow.pc = "done"

\* C13 as stated: clickContinueAndWait clicks Continue at most maxRetries
\* times, returns at once when a poll after a click observes the landmark,
\* and throws if and only if the waits after maxRetries clicks all ended
\* without the landmark.
C13_ContinueThrowsIffThreeMisses ==
    flow.fn = "clickContinueAndWait" =>
        /\ trace.clicks <= maxRetries
        /\ trace.observed <=> flow.result = "returned"
        /\ flow.result = "threw" <=>
              (trace.clicks = maxRetries /\ trace.misses = maxRetries)

\* C13 as amended: the same, except that clickContinueAndWait also throws,
\* and only then with fewer misses, when a click or a page read rejects.
C13_ContinueBoundedRetry ==
    flow.fn = "clickContinueAndWait" =>
        /\ trace.clicks <= maxRetries
        /\ trace.misses <= trace.clicks
        /\ trace.observed <=> flow.result = "returned"
        /\ flow.result = "returned" => trace.clicks = trace.misses + 1
        /\ (trace.clicks = maxRetries /\ trace.misses = maxRetries) =>
              flow.result = "threw"
        /\ flow.result = "threw" =>
              \/ trace.clicks = maxRetries /\ trace.misses = maxRetries
              \/ trace.failed

\* clickContinueAndWait has thrown after three clicks whose waits all missed
C13_Witness ==
    /\ Done("clickContinueAndWait")
    /\ flow.result = "threw"
    /\ ~trace.failed
    /\ trace.clicks = maxRetries

\* C14: waitForText returns true only if a poll read a text with the
\* landmark, returns false only once the deadline has passed with no poll
\* having read it, starts no poll once the deadline has passed, and, its page
\* reads and delays settling, every wait ends.
C14_WaitForTextTerminates ==
    /\ [](flow.fn = "waitForText" =>
            /\ flow.result = "true" => trace.observed
            /\ flow.result = "false" =>
                  (flow.elapsed >= flow.timeoutMs /\ ~trace.observed))
    /\ [](flow.pc = "w_read" => flow.elapsed < flow.timeoutMs)
    /\ (flow.pc \in {"w_read", "w_delay"}) ~> (flow.pc \notin {"w_read", "w_delay"})

\* waitForText has returned false
C14_Witness ==
    /\ Done("waitForText")
    /\ flow.result = "false"
    /\ flow.elapsed >= QuoteTimeoutMs

\* C15 as stated: fillDriverDetails ends having clicked Continue exactly
\* once, and throws if and only if the wait for "/Yearly" missed and the text
\* read afterwards has neither "Comprehensive" nor "Your quote summary".
C15_DriverFailsIffNoQuotePage ==
    Done("fillDriverDetails") =>
        /\ trace.clicks = 1
        /\ flow.result = "threw" <=>
              /\ trace.misses = 1
              /\ trace.bodyRead
              /\ trace.body \cap QuoteMarkers = {}

\* C15 as amended: when no page call rejects, the same; when one rejects,
\* fillDriverDetails throws, having clicked Continue at most once.
C15_DriverQuotePageFallback ==
    Done("fillDriverDetails") =>
        /\ trace.clicks <= 1
        /\ trace.failed => flow.result = "threw"
        /\ ~trace.failed =>
              /\ trace.clicks = 1
              /\ flow.result = "threw" <=>
                    /\ trace.misses = 1
                    /\ trace.bodyRead
                    /\ trace.body \cap QuoteMarkers = {}

\* fillDriverDetails returned because the text read after the missed wait
\* has one of the two markers
C15_Witness ==
    /\ Done("fillDriverDetails")
    /\ flow.result = "returned"
    /\ trace.misses = 1
    /\ trace.bodyRead
    /\ Cardinality(trace.body \cap QuoteMarkers) = 1

\* C16: fillCarDetails goes past the address field only with a suggestion
\* clicked and a field value longer than 10 characters, and it clicks the
\* street-keyword suggestion only in an attempt that found no address-shaped
\* suggestion.
C16_AddressAcceptedOnlyWhenLong ==
    (flow.fn = "fillCarDetails" /\ flow.addressFilled) =>
        /\ trace.accepted # "none"
        /\ page.addr = "long"
        /\ trace.accepted = "fallback" => ~trace.patternFound

\* Line j of text t lies wholly within the 500 characters that start with
\* line i
Within500(t, i, j) == j >= i /\ Start(t, j) + t[j].len <= Start(t, i) + 500

\* Line i of t is the first occurrence of the product name
FirstOccurrence(t, i, name) ==
    /\ t[i].kind = "name" /\ t[i].val = name
    /\ \A k \in 1..(i - 1) : ~(t[k].kind = "name" /\ t[k].val = name)

\* The name occurs in t and a yearly price lies within the 500 characters
\* from its first occurrence
Offered(t, name) ==
    \E i \in 1..Len(t) :
        /\ FirstOccurrence(t, i, name)
        /\ \E j \in 1..Len(t) : t[j].kind = "yearly" /\ Within500(t, i, j)

\* The place of a name in a list of names
Place(names, n) == CHOOSE k \in 1..Len(names) : names[k] = n

\* C17: extractProductsFromText(text, productNames) has a quote for a name of
\* the list if and only if the name occurs in the text with a yearly price
\* within the 500 characters from its first occurrence; it has no quote for
\* any other name, at most one per name, in the order of the list.
C17_QuoteIffYearlyInWindow ==
    extracted.fn = "extractProductsFromText" =>
        LET q == extracted.products
            names == extracted.names
        IN /\ \A k \in 1..Len(names) :
                (\E n \in 1..Len(q) : q[n].name = names[k]) <=> Offered(text, names[k])
           /\ \A n \in 1..Len(q) : \E k \in 1..Len(names) : q[n].name = names[k]
           /\ \A m, n \in 1..Len(q) :
                m < n => Place(names, q[m].name) < Place(names, q[n].name)

\* Two quotes, in the order of the list, from a text that names the second
\* product first
C17_Witness ==
    /\ extracted.fn = "extractProductsFromText"
    /\ Len(extracted.products) = 2
    /\ extracted.products[1].name = "Comprehensive"
    /\ \E i, j \in 1..Len(text) :
         /\ i < j
         /\ text[i].val = "Complete Care"
         /\ text[j].val = "Comprehensive"

\* The quote of the spec's example
SampleQuote ==
    [name |-> "Comprehensive", yearlyPrice |-> <<"$", "120.50">>,
     monthlyPrice |-> <<"$", "10.50">>, totalOver12Months |-> <<"$", "120.50">>,
     yearlySaving |-> <<"$", "15.00">>, features |-> <<>>]

\* A text of the spec's example has been searched for the comprehensive
\* products
SampleExtracted ==
    /\ extracted.fn = "extractProductsFromText"
    /\ extracted.names = ComprehensiveNames
    /\ text \in SampleTexts

\* C18 as stated: whatever stands between "Comprehensive", "$120.50/Yearly",
\* "$10.50/Monthly", "($120.50 over 12 months)" and "Save $15.00", the
\* extraction yields the quote Comprehensive, $120.50, $10.50, $120.50, $15.00.
C18_SampleQuoteAnyGap ==
    SampleExtracted =>
        \E n \in 1..Len(extracted.products) : extracted.products[n] = SampleQuote

\* In t, the first line of that kind from the first "Comprehensive" on is
\* the example's, and it lies within the 500 characters from that name
SampleFieldInReach(t, kind, val) ==
    \E i, j \in 1..Len(t) :
        /\ FirstOccurrence(t, i, "Comprehensive")
        /\ t[j].kind = kind /\ t[j].val = val
        /\ Within500(t, i, j)
        /\ \A k \in i..(j - 1) : t[k].kind # kind

\* C18 as amended: the extraction yields that quote when the four fields lie
\* within the 500 characters from the first "Comprehensive" and no other
\* price of the same kind stands between that name and the field.
C18_SampleQuoteInWindow ==
    ( /\ SampleExtracted
      /\ SampleFieldInReach(text, "yearly", "120.50")
      /\ SampleFieldInReach(text, "monthly", "10.50")
      /\ SampleFieldInReach(text, "total", "120.50")
      /\ SampleFieldInReach(text, "saving", "15.00") ) =>
        /\ Len(extracted.products) = 1
        /\ extracted.products[1] = SampleQuote

\* The example's quote is found past intervening text
C18_Witness ==
    /\ SampleExtracted
    /\ Len(text) >= 8
    /\ Len(extracted.products) = 1
    /\ extracted.products[1] = SampleQuote

\* No line of that kind is in t
Missing(t, kind) == \A j \in 1..Len(t) : t[j].kind # kind

\* The quotes of a list carry the defaults for the fields t does not have
QuoteDefaults(q, t) ==
    /\ Missing(t, "yearly") => q = <<>>
    /\ Missing(t, "name") => q = <<>>
    /\ \A n \in 1..Len(q) :
         /\ Missing(t, "monthly") => q[n].monthlyPrice = <<"N/A">>
         /\ Missing(t, "total") => q[n].totalOver12Months = <<"N/A">>
         /\ Missing(t, "saving") => q[n].yearlySaving = <<>>

\* C20: extractQuoteResults, its page calls resolving, returns a result for
\* every text; in it a missing vehicle description or gender is "Unknown", a
\* missing age or additional-driver count 0, a missing monthly price or total
\* "N/A", a missing saving left out, and the quote lists of a text with no
\* product are empty.
C20_MissingFieldsDefault ==
    (extracted.fn = "extractQuoteResults" /\ ~extracted.threw) =>
        LET r == extracted.result IN
        /\ Missing(text, "car") => r.car.description = <<"Unknown">>
        /\ Missing(text, "gender") => r.driver.gender = "Unknown"
        /\ Missing(text, "age") => r.driver.age = 0
        /\ Missing(text, "drivers") => r.driver.additionalDrivers = 0
        /\ QuoteDefaults(r.comprehensive, text)
        /\ QuoteDefaults(r.thirdParty, extracted.tp)
        /\ ~extracted.tab => r.thirdParty = <<>>

\* A result with every summary field and all but the yearly price defaulted
C20_Witness ==
    /\ extracted.fn = "extractQuoteResults"
    /\ ~extracted.threw
    /\ Missing(text, "car") /\ Missing(text, "age")
    /\ Missing(text, "gender") /\ Missing(text, "drivers")
    /\ Len(extracted.result.comprehensive) = 1
    /\ extracted.result.comprehensive[1].monthlyPrice = <<"N/A">>
    /\ extracted.result.comprehensive[1].yearlySaving = <<>>
    /\ Len(extracted.result.thirdParty) = 1

\* C21: once a get_quotes call on a session has completed, with the quotes
\* or with the error of a failed extraction, the session is no longer in the
\* store, so that every later call with its id is answered "not found".
C21_GetQuotesEndsSession ==
    \A e \in ev :
        (e.op = "return" /\ e.tool = "get_quotes" /\ e.ret \in {"ok", "flow_error"}) =>
            e.id \notin DOMAIN sessions

\* C22: in the client's run with every landmark appearing and each call
\* starting within the idle timeout of the one before, the id start_quote
\* returned is found by each of the three later calls, every call returns a
\* result that is no error, the reaper's test selects the session at no
\* moment, and after get_quotes the store holds as many sessions as before
\* start_quote (none).
C22_HappyPath ==
    /\ \A e \in ev : e.op = "return" => e.ret = "ok"
    /\ \A e \in ev : e.op = "get" => e.hit /\ e.id \in known
    /\ ExpiredAfter(sessions, now, NoId) = {}
    /\ (h["h1"].pc = "idle" /\ calls \in 1 .. (ScriptSteps - 1)) =>
           known \subseteq DOMAIN sessions /\ getActiveSessions(sessions) = 1
    /\ (h["h1"].pc = "idle" /\ calls = ScriptSteps) => getActiveSessions(sessions) = 0

\* The fourth call has returned the quotes, and time passed during the run
C22_Witness ==
    /\ calls = ScriptSteps
    /\ now > 0
    /\ \E e \in ev : e.op = "return" /\ e.tool = "get_quotes" /\ e.ret = "ok"
    /\ getActiveSessions(sessions) = 0

\* C23: updateSessionState with an id that has no entry leaves the store as
\* it was: no entry appears and no session's state or timestamps change.
C23_UpdateAbsentNoEffect ==
    [][\A e \in ev' :
          (e.op = "update" /\ e.id \notin DOMAIN sessions) => sessions' = sessions]_vars

\* updateSessionState has been called with an absent id while the store
\* holds a session
C23_Witness ==
    \E e \in ev : e.op = "update" /\ ~e.hit /\ DOMAIN sessions # {}

\* C24: after its creation a session's lastActivity changes only in a step
\* that is a getSession hit on that session.
C24_OnlyGetSessionRefreshes ==
    [][\A id \in DOMAIN sessions \cap DOMAIN sessions' :
          sessions'[id].lastActivity # sessions[id].lastActivity =>
              \E e \in ev' : e.op = "get" /\ e.hit /\ e.id = id]_vars

\* The ids a step acts on: those of its store operations and results, of
\* the handlers that move, and of the reaper's sweep when it moves
Acted ==
    {e.id : e \in ev'} \cup
    {h[p].sid : p \in {q \in Procs : h'[q] # h[q]}} \cup
    (IF reaper' # reaper THEN {reaper.id, reaper'.id} ELSE {})

\* C25: each session has its own browser and context (one handle per id),
\* and a step leaves every session it does not act on as it was: present or
\* absent as before, with the same state and timestamps, the same browser
\* handle and no close call made on it.  So a destroy or a failed flow on
\* one session changes no other session.
C25_SessionsIsolated ==
    [][\A k \in Ids \ Acted :
          /\ (k \in DOMAIN sessions) = (k \in DOMAIN sessions')
          /\ k \in DOMAIN sessions => sessions'[k] = sessions[k]
          /\ handle'[k] = handle[k]
          /\ ctxCalls'[k] = ctxCalls[k]
          /\ brCalls'[k] = brCalls[k]]_vars

\* A failed step's destroySession has returned on one session while another
\* session is in the store with its browser open
C25_Witness ==
    \E e \in ev :
        /\ e.op = "return" /\ e.ret = "flow_error" /\ e.id \in destroyedDone
        /\ \E k \in DOMAIN sessions : k # e.id /\ handle[k] = "open"

\* C26: one call of a flow function submits the vehicle lookup at most
\* once and clicks Continue at most maxRetries times in fillCarDetails (and
\* in clickContinueAndWait) and at most once in fillDriverDetails; once the
\* function has returned or thrown, nothing of it runs again.
C26_NoRetryAcrossSteps ==
    /\ [](/\ trace.submits <= 1
          /\ flow.fn \in {"fillCarDetails", "clickContinueAndWait"} =>
                 trace.clicks <= maxRetries
          /\ flow.fn = "fillDriverDetails" => trace.clicks <= 1
          /\ flow.fn = "findCarByRego" => trace.clicks = 0)
    /\ [][flow.pc = "done" => flow' = flow /\ trace' = trace /\ page' = page]_vars

\* fillCarDetails has thrown after its third Continue click
C26_Witness ==
    /\ flow.fn = "fillCarDetails"
    /\ Done("fillCarDetails")
    /\ flow.result = "threw"
    /\ trace.clicks = maxRetries

\* C28: fillCarDetails makes at most AddressAttempts passes of its address
\* loop; the later fields are filled and Continue is clicked only after a
\* pass has accepted a suggestion; and when the last pass accepts none the
\* function has thrown with no later field filled and no click made.
C28_AddressBeforeLaterFields ==
    flow.fn = "fillCarDetails" =>
        /\ trace.attempts <= AddressAttempts
        /\ (trace.fields \/ trace.clicks > 0) => flow.addressFilled
        /\ (trace.attempts = AddressAttempts /\ trace.accepted = "none") =>
               /\ Done("fillCarDetails")
               /\ flow.result = "threw"
               /\ ~trace.fields
               /\ trace.clicks = 0

\* Both passes ended without an accepted suggestion, no page call rejected
C28_Witness ==
    /\ flow.fn = "fillCarDetails"
    /\ trace.attempts = AddressAttempts
    /\ trace.accepted = "none"
    /\ ~trace.failed
    /\ flow.result = "threw"

\* C27: the comprehensive quotes of extractQuoteResults are those of the
\* text the page showed before the third-party tab was clicked; the tab is
\* clicked and the text read a second time exactly when the tab exists and
\* is visible, the third-party quotes then being those of the second text;
\* otherwise there is no click, one read and an empty thirdParty list.
C27_ComprehensiveBeforeTab ==
    (extracted.fn = "extractQuoteResults" /\ ~extracted.threw) =>
        /\ extracted.result.comprehensive =
               extractProductsFromText(text, ComprehensiveNames)
        /\ IF extracted.exists /\ extracted.visible
           THEN /\ extracted.clicks = 1
                /\ extracted.reads = 2
                /\ extracted.result.thirdParty =
                       extractProductsFromText(extracted.tp, ThirdPartyNames)
           ELSE /\ extracted.clicks = 0
                /\ extracted.reads = 1
                /\ extracted.result.thirdParty = <<>>

\* The tab was clicked and the text read after the click holds a
\* comprehensive quote that the result does not have
C27_Witness ==
    /\ extracted.fn = "extractQuoteResults"
    /\ extracted.clicks = 1
    /\ extracted.result.comprehensive # <<>>
    /\ extractProductsFromText(extracted.tp, ComprehensiveNames) # <<>>
    /\ extracted.result.comprehensive #
           extractProductsFromText(extracted.tp, ComprehensiveNames)

\* A destroySession(id) call is suspended at one of its close calls
Pending(id) ==
    \/ \E p \in Procs : h[p].pc \in {"d_ctx", "d_br"} /\ h[p].sid = id
    \/ reaper.pc \in {"d_ctx", "d_br"} /\ reaper.id = id

\* C29: once every destroySession call made on a session has settled, its
\* entry is out of the store, whether the close calls resolved or rejected,
\* and a handler that destroyed a session reports what it had to report,
\* never an error of the destroy.
C29_DestroyNeverThrows ==
    /\ \A id \in Ids :
         (ctxCalls[id] > 0 /\ ~Pending(id)) => id \notin DOMAIN sessions
    /\ \A e \in ev :
         (e.op = "return" /\ e.id \in destroyedDone) =>
             e.ret \in {"ok", "invalid_args", "flow_error", "not_found", "none"}

\* context.close() rejected (the browser is still open and browser.close()
\* was never invoked), and the entry has been removed
C29_Witness ==
    \E id \in destroyedDone :
        /\ handle[id] = "open"
        /\ brCalls[id] = 0
        /\ ~Pending(id)
        /\ id \notin DOMAIN sessions

\* C30: a fill_car_details, fill_driver_details or get_quotes call whose
\* sessionId has no entry in the store reports "not found" in the same step:
\* no handler is left running a flow, no browser is launched or closed, no
\* id is issued and the store is as before.
C30_AbsentIdOnlyReports ==
    [][ \A e \in ev' :
          (e.op = "get" /\ e.id \notin DOMAIN sessions) =>
             /\ ~e.hit
             /\ \E r \in ev' :
                  r.op = "return" /\ r.id = e.id /\ r.tool = e.tool /\ r.ret = "not_found"
             /\ \A r \in ev' : r.op \notin {"create", "destroy", "reap"}
             /\ h' = h
             /\ sessions' = sessions
             /\ nextId' = nextId
             /\ issued' = issued
             /\ handle' = handle
             /\ ctxCalls' = ctxCalls
             /\ brCalls' = brCalls ]_vars

\* A call with the id of a session that has been destroyed
C30_Witness ==
    \E e \in ev :
        /\ e.op = "get" /\ ~e.hit
        /\ e.id \in destroyedDone

\* C31: once a destroySession call has removed a session's entry,
\* browser.close() has been invoked on that session's browser, also when
\* context.close() rejected.
C31_BrowserCloseAlwaysInvoked ==
    \A id \in destroyedDone : brCalls[id] >= 1

\* C35: every browser that was launched and is not closed belongs to a
\* session in the store.
C35_NoBrowserWithoutSession ==
    \A id \in Ids :
        handle[id] \in {"open", "ctx_closed"} => id \in DOMAIN sessions

\* C36: getActiveSessions is the number of ids getSession would find, which
\* is the number of sessions created less the number removed by a
\* destroySession call of a handler or of the reaper: a session destroyed
\* by two calls at once is taken off once, and the count is never negative.
C36_ActiveSessionsCount ==
    /\ getActiveSessions(sessions) =
           Cardinality({id \in Ids : id \in DOMAIN getSession(sessions, id, now)})
    /\ destroyedDone \subseteq issued
    /\ getActiveSessions(sessions) = Cardinality(issued) - Cardinality(destroyedDone)
    /\ getActiveSessions(sessions) >= 0

\* A session has been removed after two destroySession calls ran on it at
\* once, and another session is in the store
C36_Witness ==
    /\ \E id \in destroyedDone : ctxCalls[id] = 2 /\ ~Pending(id)
    /\ getActiveSessions(sessions) = 1

\* The step that has to have succeeded on a session before `tool` runs
Before(tool) ==
    CASE tool = "fill_car_details" -> "start_quote"
      [] tool = "fill_driver_details" -> "fill_car_details"
      [] OTHER -> "fill_driver_details"

\* C32: a handler runs the flow of fill_car_details, fill_driver_details or
\* get_quotes on a session only when the step before it has succeeded on
\* that session.
C32_StepsInOrder ==
    \A p \in Procs :
        (h[p].pc = "flow" /\ h[p].tool \in GetTools) =>
            \E s \in succeeded : s.id = h[p].sid /\ s.tool = Before(h[p].tool)

\* C33: the reaper does not start on a session before the idle timeout has
\* elapsed since a step on that session returned its result.
C33_KeptForTimeoutAfterReturn ==
    \A e \in ev :
        e.op = "reap" =>
            \A s \in succeeded :
                s.id = e.id => now - s.at >= SESSION_TIMEOUT_MS

\* The lines of a product's section: those after line i, the first
\* occurrence of its name, and before the next line that is a product name
Section(t, i) ==
    {j \in (i + 1)..Len(t) : \A k \in (i + 1)..j : t[k].kind # "name"}

\* The prices a section shows for one kind of field
SectionPrices(t, i, kind) ==
    {Price(t[j].val) : j \in {k \in Section(t, i) : t[k].kind = kind}}

\* C34: every price of an emitted quote is shown in the section of the
\* product the quote names, between the first occurrence of the name and
\* the next product name; a field the quote reports as missing aside.
C34_PricesFromOwnSection ==
    extracted.fn = "extractProductsFromText" =>
        \A n \in 1..Len(extracted.products) :
            LET q == extracted.products[n]
                i == CHOOSE k \in 1..Len(text) : FirstOccurrence(text, k, q.name)
            IN /\ q.yearlyPrice \in SectionPrices(text, i, "yearly")
               /\ q.monthlyPrice \in {NA} \cup SectionPrices(text, i, "monthly")
               /\ q.totalOver12Months \in {NA} \cup SectionPrices(text, i, "total")
               /\ q.yearlySaving \in {Undefined, Price("cut short")}
                                       \cup SectionPrices(text, i, "saving")

\* The transports whose session-initialized callback has run and whose
\* close callback has not
Live(m) == {k \in 1..Len(m.objs) : m.objs[k].sid # 0 /\ m.objs[k].open}

\* A request has been answered in this step
Answered == mcp'.n # mcp.n

\* C37 as stated: a transport is created exactly by a POST without session
\* id that is an initialize request; every request with an unregistered
\* session id, and every non-initialize POST without one, gets status 400
\* and creates nothing; the Map holds exactly the transports between their
\* two callbacks.
C37_McpEndpoint ==
    /\ [](mcp.map = Live(mcp))
    /\ [][Answered =>
            LET r == mcp'.last IN
            /\ (Len(mcp'.objs) > Len(mcp.objs)) <=>
                   (r.method = "POST" /\ r.hdr = 0 /\ r.init)
            /\ ((r.hdr # 0 /\ r.hdr \notin mcp.map)
                  \/ (r.method = "POST" /\ r.hdr = 0 /\ ~r.init)) =>
                   /\ r.status = "400"
                   /\ mcp'.objs = mcp.objs
                   /\ mcp'.map = mcp.map]_vars

\* C37, amended: as above for GET, POST and DELETE requests; a request of
\* any other method gets status 405 and creates nothing.
C37_McpEndpointByMethod ==
    /\ [](mcp.map = Live(mcp))
    /\ [][Answered =>
            LET r == mcp'.last IN
            /\ (Len(mcp'.objs) > Len(mcp.objs)) <=>
                   (r.method = "POST" /\ r.hdr = 0 /\ r.init)
            /\ (Len(mcp'.objs) > Len(mcp.objs)) =>
                   /\ mcp'.objs = Append(mcp.objs, [sid |-> 0, open |-> TRUE])
                   /\ mcp'.map = mcp.map
            /\ (/\ r.method \in {"GET", "POST", "DELETE"}
                /\ \/ r.hdr # 0 /\ r.hdr \notin mcp.map
                   \/ r.method = "POST" /\ r.hdr = 0 /\ ~r.init) =>
                   /\ r.status = "400"
                   /\ mcp'.objs = mcp.objs
                   /\ mcp'.map = mcp.map
            /\ r.method \notin {"GET", "POST", "DELETE"} =>
                   /\ r.status = "405"
                   /\ mcp'.objs = mcp.objs
                   /\ mcp'.map = mcp.map]_vars

\* A request with the session id of a transport that has been closed is
\* answered 400 while another transport is in the Map
C37_Witness ==
    /\ mcp.last.status = "400"
    /\ mcp.last.hdr \in 1..Len(mcp.objs)
    /\ mcp.objs[mcp.last.hdr].sid # 0
    /\ ~mcp.objs[mcp.last.hdr].open
    /\ mcp.map # {}

\* C38: for integers minMs < maxMs the timeout humanDelay sets is a whole
\* number of milliseconds from minMs up to, and not including, maxMs; the
\* poll interval of waitForText is at least 2000 ms and below 2500 ms.
C38_DelayInRange ==
    /\ delay.pc # "idle" =>
         /\ delay.ms \in Int
         /\ delay.minMs <= delay.ms
         /\ delay.ms < delay.maxMs
         /\ (delay.minMs = PollDelayMinMs /\ delay.maxMs = PollDelayMaxMs) =>
                (2000 <= delay.ms /\ delay.ms < 2500)
    /\ \A d \in humanDelay(PollDelayMinMs, PollDelayMaxMs) : 2000 <= d /\ d < 2500

\* The longest delay of a range of more than one value
C38_Witness ==
    /\ delay.pc = "resolved"
    /\ delay.ms = delay.maxMs - 1
    /\ delay.ms > delay.minMs

====
